---- MODULE Spec2Model ----
(***************************************************************************)
(* A model of the entity facades of sbml-rs (Parameter, Rule,              *)
(* SpeciesReference), their builders, the RefCell borrow tracker every     *)
(* facade carries, the upcast to a base type, and the annotation trait.    *)
(***************************************************************************)
EXTENDS Integers, Sequences, FiniteSets, TLC

\* Entities a document may hold besides its Model and its Reaction.
MaxNodes == 2
\* Facades (each with its own RefCell) that may exist at once.
MaxFacades == 4
\* Guards (Ref or RefMut) that may be out at once, over all the RefCells.
MaxGuards == 2

VARIABLES
    nodes,      \* the libSBML objects, by address
    facades,    \* the Rust facades, by handle
    last        \* the last call made, with its outcome

vars == <<nodes, facades, last>>

Addr == 1..(MaxNodes + 2)
Handle == 1..MaxFacades

----------------------------------------------------------------------------
\* Outcomes of a call.

Ok(v) == [out |-> "ok", val |-> v]
Err(k) == [out |-> "err", val |-> k]
Panic(k) == [out |-> "panic", val |-> k]

Eff(ns, fs, res) == [ns |-> ns, fs |-> fs, res |-> res]

----------------------------------------------------------------------------
\* Markup text is a sequence of tokens; a parsed element is a tree.

Open(t) == <<"open", t>>
Close(t) == <<"close", t>>
Text(s) == <<"text", s>>
WS == <<"ws", "">>

Elem(t, ks) == [tag |-> t, text |-> "", kids |-> ks]
TextNode(s) == [tag |-> "", text |-> s, kids |-> <<>>]

ParseFail == [ok |-> FALSE, forest |-> <<>>]

\* The stack holds the open elements; its first frame collects the top
\* level.  A failed parse leaves the empty stack.
ParseStep(stack, tk) ==
    LET d == Len(stack)
    IN  CASE d = 0 -> <<>>
          [] tk[1] = "ws" -> stack
          [] tk[1] = "open" -> Append(stack, Elem(tk[2], <<>>))
          [] tk[1] = "text" ->
               IF d = 1
               THEN <<>>
               ELSE [stack EXCEPT ![d].kids = Append(@, TextNode(tk[2]))]
          [] OTHER ->
               IF d = 1 \/ stack[d].tag # tk[2]
               THEN <<>>
               ELSE [SubSeq(stack, 1, d - 1) EXCEPT
                        ![d - 1].kids = Append(@, stack[d])]

RECURSIVE ParseFrom(_, _, _)
\* Each token is applied to the stack as it stands after the token before.
ParseFrom(toks, i, stack) ==
    IF i > Len(toks)
    THEN IF Len(stack) = 1
         THEN [ok |-> TRUE, forest |-> stack[1].kids]
         ELSE ParseFail
    ELSE CHOOSE r \in {ParseFrom(toks, i + 1, s) :
                          s \in {ParseStep(stack, toks[i])}} : TRUE

ParseMarkup(toks) ==
    CHOOSE r \in {ParseFrom(t, 1, <<Elem("", <<>>)>>) : t \in {toks}} : TRUE

HasElementKid(n) == \E k \in 1..Len(n.kids) : n.kids[k].tag # ""

RECURSIVE RenderNode(_)
RECURSIVE RenderForest(_)
\* libSBML writes an element with element children on several indented lines.
RenderNode(n) ==
    IF n.tag = ""
    THEN <<Text(n.text)>>
    ELSE <<Open(n.tag)>>
         \o (IF HasElementKid(n) THEN <<WS>> ELSE <<>>)
         \o RenderForest(n.kids)
         \o <<Close(n.tag)>>

RenderForest(f) ==
    IF f = <<>>
    THEN <<>>
    ELSE (CHOOSE r \in {RenderNode(n) \o (IF n.tag # "" THEN <<WS>> ELSE <<>>) :
                            n \in {Head(f)}} : TRUE)
         \o (CHOOSE r \in {RenderForest(rest) : rest \in {Tail(f)}} : TRUE)

IsWS(tk) == tk[1] = "ws"
\* The tests' .replace("\n", "").replace(" ", "")
Normalize(toks) == SelectSeq(toks, LAMBDA tk : ~IsWS(tk))

----------------------------------------------------------------------------
\* The external serializer: a value of a serde type T becomes an element
\* named after T holding one element per field.

SerdeTypes == {"Test", "Other"}
TagOf(T) == T
FieldOf(T) == IF T = "Test" THEN "test" ELSE "name"

Values == [type : SerdeTypes, val : {"x", "y"}]
\* A bare string has no root name: the serializer rejects it.
Rejected == [type |-> "str", val |-> "x"]

Accepts(v) == v.type \in SerdeTypes

to_string(v) ==
    IF ~Accepts(v)
    THEN Err("Unsupported")
    ELSE Ok(<<Open(TagOf(v.type)), Open(FieldOf(v.type)), Text(v.val),
             Close(FieldOf(v.type)), Close(TagOf(v.type))>>)

from_element(T, e) ==
    IF /\ e.tag = TagOf(T)
       /\ Len(e.kids) = 1
       /\ e.kids[1].tag = FieldOf(T)
       /\ Len(e.kids[1].kids) = 1
       /\ e.kids[1].kids[1].tag = ""
    THEN Ok([type |-> T, val |-> e.kids[1].kids[1].text])
    ELSE Err("SchemaMismatch")

----------------------------------------------------------------------------
\* Nodes and facades.

BlankNode ==
    [kind |-> "none", id |-> "", name |-> "", value |-> <<>>, units |-> "",
     constant |-> FALSE, isSetConstant |-> FALSE,
     variable |-> "", formula |-> "",
     species |-> "", stoichiometry |-> 0,
     annotation |-> <<>>]

NoFacade ==
    [addr |-> 0, type |-> "none", readers |-> 0, writer |-> FALSE,
     building |-> FALSE, origin |-> ""]

Live(h) == facades[h].type # "none"
NodeOf(h) == nodes[facades[h].addr]

HasFreeAddr == \E a \in Addr : nodes[a].kind = "none"
FreeAddr == CHOOSE a \in Addr :
                /\ nodes[a].kind = "none"
                /\ \A b \in Addr : b < a => nodes[b].kind # "none"
HasFreeHandle == \E h \in Handle : ~Live(h)
FreeHandle == CHOOSE h \in Handle :
                  /\ ~Live(h)
                  /\ \A g \in Handle : g < h => Live(g)

\* RefCell::borrow and RefCell::borrow_mut succeed under these conditions
\* and panic otherwise.
CanBorrow(h) == ~facades[h].writer
CanBorrowMut(h) == ~facades[h].writer /\ facades[h].readers = 0

NewFacade(a, ty, origin, building) ==
    [addr |-> a, type |-> ty, readers |-> 0, writer |-> FALSE,
     building |-> building, origin |-> origin]

----------------------------------------------------------------------------
\* The borrow every accessor takes for the length of one call.

\* The RefMut outlives the call: the cell stays exclusively borrowed.
Mutate_guard_kept(h, ns) ==
    IF CanBorrowMut(h)
    THEN Eff(ns, [facades EXCEPT ![h].writer = TRUE], Ok("unit"))
    ELSE Eff(nodes, facades, Panic("BorrowMutError"))

\* self.inner.borrow_mut().as_mut().<setter>(..)
Mutate(h, ns) ==
    IF CanBorrowMut(h)
    THEN Eff(ns, facades, Ok("unit"))
    ELSE Eff(nodes, facades, Panic("BorrowMutError"))

\* self.inner.borrow().<getter>()
Read(h, v) == IF CanBorrow(h) THEN Ok(v) ELSE Panic("BorrowError")

\* The declared base types of each libSBML class.
Ancestors(ty) ==
    CASE ty = "SpeciesReference" -> {"SimpleSpeciesReference", "SBase"}
      [] ty = "RateRule" -> {"Rule", "SBase"}
      [] ty = "AssignmentRule" -> {"Rule", "SBase"}
      [] ty = "Rule" -> {"SBase"}
      [] ty = "Parameter" -> {"SBase"}
      [] ty = "Model" -> {"SBase"}
      [] ty = "Reaction" -> {"SBase"}
      [] OTHER -> {}

\* The cast lands on the first object of the document instead.
upcast_first_object(h, to) ==
    IF ~CanBorrowMut(h)
    THEN Panic("BorrowMutError")
    ELSE Ok([addr |-> 1, type |-> to])

\* upcast!(self, From, To): the same address seen as the base type; the
\* facade's cell is borrowed exclusively while the pointer is taken.
upcast(h, to) ==
    IF ~CanBorrowMut(h)
    THEN Panic("BorrowMutError")
    ELSE Ok([addr |-> facades[h].addr, type |-> to])

----------------------------------------------------------------------------
\* The annotation trait that upcast_annotation! implements for a facade.

AnnotationTag == "annotation"

\* SBase::setAnnotation keeps a given <annotation> element and wraps
\* anything else in one.
Wrap(forest) ==
    IF Len(forest) = 1 /\ forest[1].tag = AnnotationTag
    THEN forest[1]
    ELSE Elem(AnnotationTag, forest)

get_annotation(h) ==
    LET base == upcast(h, "SBase")
    IN  IF base.out # "ok"
        THEN base
        ELSE Ok(RenderForest(nodes[base.val.addr].annotation))

set_annotation(h, text) ==
    LET base == upcast(h, "SBase")
        p == ParseMarkup(text)
    IN  IF base.out # "ok"
        THEN Eff(nodes, facades, base)
        ELSE IF ~p.ok \/ p.forest = <<>>
        THEN Eff(nodes, facades, Err("MalformedMarkup"))
        ELSE Eff([nodes EXCEPT ![base.val.addr].annotation = <<Wrap(p.forest)>>],
                 facades, Ok("unit"))

TaggedAt(ks, tag) == {i \in 1..Len(ks) : ks[i].tag = tag}

\* The element with e's tag is replaced where it stands; without one, e is
\* added after the elements already there.
MergeTagged(ks, e) ==
    IF TaggedAt(ks, e.tag) = {}
    THEN Append(ks, e)
    ELSE [i \in 1..Len(ks) |-> IF ks[i].tag = e.tag THEN e ELSE ks[i]]

ContainerKids(ann) == IF ann = <<>> THEN <<>> ELSE ann[1].kids

set_annotation_serde(h, v) ==
    LET s == to_string(v)
        base == upcast(h, "SBase")
    IN  IF s.out # "ok"
        THEN Eff(nodes, facades, s)
        ELSE IF base.out # "ok"
        THEN Eff(nodes, facades, base)
        ELSE LET a == base.val.addr
                 e == ParseMarkup(s.val).forest[1]
             IN  Eff([nodes EXCEPT ![a].annotation =
                         <<Elem(AnnotationTag,
                                MergeTagged(ContainerKids(nodes[a].annotation), e))>>],
                     facades, Ok("unit"))

\* Every failure is reported as a missing annotation.
get_annotation_serde_one_error(h, T) ==
    LET g == get_annotation(h)
    IN  IF g.out # "ok"
        THEN g
        ELSE CHOOSE r \in
                 {LET at == TaggedAt(ks, TagOf(T))
                      found == from_element(T, ks[CHOOSE i \in at : \A j \in at : i <= j])
                  IN  IF at = {} \/ found.out # "ok"
                      THEN Err("AnnotationNotFound")
                      ELSE found
                  : ks \in {ContainerKids(ParseMarkup(g.val).forest)}} : TRUE

get_annotation_serde(h, T) ==
    LET g == get_annotation(h)
    IN  IF g.out # "ok"
        THEN g
        ELSE CHOOSE r \in
                 {LET at == TaggedAt(ks, TagOf(T))
                  IN  IF at = {}
                      THEN Err("AnnotationNotFound")
                      ELSE from_element(T, ks[CHOOSE i \in at : \A j \in at : i <= j])
                  : ks \in {ContainerKids(ParseMarkup(g.val).forest)}} : TRUE

----------------------------------------------------------------------------
\* The owners: SBMLDocument::new, doc.create_model, model.create_reaction.

ModelAddr == 1
ReactionAddr == 2
ModelHandle == 1
ReactionHandle == 2

Document ==
    [a \in Addr |->
        IF a = ModelAddr THEN [BlankNode EXCEPT !.kind = "Model", !.id = "m"]
        ELSE IF a = ReactionAddr
        THEN [BlankNode EXCEPT !.kind = "Reaction", !.id = "r"]
        ELSE BlankNode]

DocumentFacades ==
    [h \in Handle |->
        IF h = ModelHandle
        THEN NewFacade(ModelAddr, "Model", "create_model", FALSE)
        ELSE IF h = ReactionHandle
        THEN NewFacade(ReactionAddr, "Reaction", "create_reaction", FALSE)
        ELSE NoFacade]

\* owner.inner().borrow_mut().as_mut().create<Kind>(), then a facade with a
\* RefCell of its own around the new object.
Create(owner, node, ty, origin) ==
    IF ~CanBorrowMut(owner)
    THEN Eff(nodes, facades, Panic("BorrowMutError"))
    ELSE Eff([nodes EXCEPT ![FreeAddr] = node],
             [facades EXCEPT ![FreeHandle] =
                 NewFacade(FreeAddr, ty, origin, FALSE)],
             Ok(FreeHandle))

----------------------------------------------------------------------------
\* Parameter

\* Parameter::initDefaults is setConstant(true); setConstant records the
\* flag and that it has been set.
Parameter_new_node(id) ==
    [BlankNode EXCEPT !.kind = "Parameter", !.constant = TRUE,
                      !.isSetConstant = TRUE, !.id = id]

Parameter_new(model, id) ==
    Create(model, Parameter_new_node(id), "Parameter", "Parameter::new")

Parameter_id(h) == Read(h, NodeOf(h).id)

Parameter_set_id(h, id) ==
    Mutate(h, [nodes EXCEPT ![facades[h].addr].id = id])

Parameter_name(h) == Read(h, NodeOf(h).name)

Parameter_set_name(h, name) ==
    Mutate(h, [nodes EXCEPT ![facades[h].addr].name = name])

\* Option<f64>: <<>> is None, <<v>> is Some(v).
\* getValue() is returned without asking isSetValue().
Parameter_value_unchecked(h) ==
    IF ~CanBorrow(h)
    THEN Panic("BorrowError")
    ELSE IF NodeOf(h).value # <<>>
    THEN Ok(<<NodeOf(h).value[1]>>)
    ELSE Ok(<<"NaN">>)

Parameter_value(h) ==
    IF ~CanBorrow(h)
    THEN Panic("BorrowError")
    ELSE IF NodeOf(h).value # <<>>
    THEN Ok(<<NodeOf(h).value[1]>>)
    ELSE Ok(<<>>)

Parameter_set_value(h, value) ==
    Mutate(h, [nodes EXCEPT ![facades[h].addr].value = <<value>>])

Parameter_units(h) == Read(h, NodeOf(h).units)

\* setName is called where setUnits is meant.
Parameter_set_units_as_name(h, units) ==
    Mutate(h, [nodes EXCEPT ![facades[h].addr].name = units])

Parameter_set_units(h, units) ==
    Mutate(h, [nodes EXCEPT ![facades[h].addr].units = units])

\* Reads isSetConstant(), not getConstant().
Parameter_constant(h) == Read(h, NodeOf(h).isSetConstant)

Parameter_set_constant(h, constant) ==
    Mutate(h, [nodes EXCEPT ![facades[h].addr].constant = constant,
                            ![facades[h].addr].isSetConstant = TRUE])

\* A facade, with a fresh RefCell, for an object that already exists.
Parameter_from_ptr(a) ==
    Eff(nodes,
        [facades EXCEPT ![FreeHandle] =
            NewFacade(a, "Parameter", "from_ptr", FALSE)],
        Ok(FreeHandle))

\* A builder keeps the facade its owner's create_<kind> made until build().
Stage(eff) ==
    IF eff.res.out = "ok"
    THEN Eff(eff.ns, [eff.fs EXCEPT ![eff.res.val].building = TRUE], eff.res)
    ELSE eff

\* model.create_parameter(id)
ParameterBuilder_new(model, id) == Stage(Parameter_new(model, id))

ParameterBuilder_value(h, value) == Parameter_set_value(h, value)
ParameterBuilder_units(h, units) == Parameter_set_units(h, units)
ParameterBuilder_constant(h, constant) == Parameter_set_constant(h, constant)

\* .map_err(|e| SeError::Custom(e.to_string()))?
MapErr(eff) ==
    IF eff.res.out = "err"
    THEN Eff(eff.ns, eff.fs, Err(<<"Custom", eff.res.val>>))
    ELSE eff

\* The text is attached as given, inside a second container.
ParameterBuilder_annotation_rewrapped(h, annotation) ==
    MapErr(set_annotation(h,
        <<Open(AnnotationTag)>> \o annotation \o <<Close(AnnotationTag)>>))

ParameterBuilder_annotation(h, annotation) ==
    MapErr(set_annotation(h, annotation))

\* The serialized text is dropped: set_annotation is never called.
ParameterBuilder_annotation_serde_unset(h, annotation) ==
    LET s == to_string(annotation)
    IN  IF s.out # "ok"
        THEN Eff(nodes, facades, s)
        ELSE Eff(nodes, facades, Ok("unit"))

\* Serializes, then sets the text as the whole annotation.
ParameterBuilder_annotation_serde(h, annotation) ==
    LET s == to_string(annotation)
    IN  IF s.out # "ok"
        THEN Eff(nodes, facades, s)
        ELSE MapErr(set_annotation(h, s.val))

Builder_build(h) ==
    Eff(nodes, [facades EXCEPT ![h].building = FALSE], Ok(h))

----------------------------------------------------------------------------
\* Rule

\* createRateRule / createAssignmentRule fix the object's class; the Rule
\* view of it (upcast_pin!) then sets the variable and the formula.
Rule_new_node(kind, variable, formula) ==
    [BlankNode EXCEPT !.kind = kind, !.variable = variable,
                      !.formula = formula]

Rule_new_rate_rule(model, variable, formula) ==
    Create(model, Rule_new_node("RateRule", variable, formula),
           "Rule", "new_rate_rule")

\* createRateRule is called where createAssignmentRule is meant.
Rule_new_assignment_rule_as_rate(model, variable, formula) ==
    Create(model, Rule_new_node("RateRule", variable, formula),
           "Rule", "new_assignment_rule")

Rule_new_assignment_rule(model, variable, formula) ==
    Create(model, Rule_new_node("AssignmentRule", variable, formula),
           "Rule", "new_assignment_rule")

\* A string libSBML holds that is not valid UTF-8; the facades' setters take
\* &str and cannot write one.
NotUtf8 == "\\xFF"

\* .to_str().unwrap()
to_str_unwrap(s) == IF s = NotUtf8 THEN Panic("Utf8Error") ELSE Ok(s)

Rule_variable(h) ==
    IF ~CanBorrow(h)
    THEN Panic("BorrowError")
    ELSE to_str_unwrap(NodeOf(h).variable)

Rule_set_variable(h, variable) ==
    Mutate(h, [nodes EXCEPT ![facades[h].addr].variable = variable])

Rule_formula(h) ==
    IF ~CanBorrow(h)
    THEN Panic("BorrowError")
    ELSE to_str_unwrap(NodeOf(h).formula)

Rule_set_formula(h, formula) ==
    Mutate(h, [nodes EXCEPT ![facades[h].addr].formula = formula])

\* Rule::isRate and Rule::isAssignment answer from the object's class.
isRate(n) == n.kind = "RateRule"
isAssignment(n) == n.kind = "AssignmentRule"

\* A rule that is neither a rate nor an assignment rule is taken for an
\* assignment rule.
Rule_rule_type_defaulting(h) ==
    IF ~CanBorrow(h)
    THEN Panic("BorrowError")
    ELSE IF isRate(NodeOf(h))
    THEN Ok("RateRule")
    ELSE Ok("AssignmentRule")

Rule_rule_type(h) ==
    IF ~CanBorrow(h)
    THEN Panic("BorrowError")
    ELSE IF isRate(NodeOf(h))
    THEN Ok("RateRule")
    ELSE IF isAssignment(NodeOf(h))
    THEN Ok("AssignmentRule")
    ELSE Err("Unknown rule type")

Rule_from_ptr(a) ==
    Eff(nodes,
        [facades EXCEPT ![FreeHandle] = NewFacade(a, "Rule", "from_ptr", FALSE)],
        Ok(FreeHandle))

\* model.create_rate_rule(variable, formula)
RateRuleBuilder_new(model, variable, formula) ==
    Stage(Rule_new_rate_rule(model, variable, formula))

\* The text is given to setFormula as well.
RateRuleBuilder_annotation_into_formula(h, annotation) ==
    LET eff == MapErr(set_annotation(h, annotation))
    IN  Eff([eff.ns EXCEPT ![facades[h].addr].formula = "annotation"],
            eff.fs, eff.res)

\* The failure of set_annotation is dropped and the builder returned.
RateRuleBuilder_annotation_unchecked(h, annotation) ==
    LET eff == set_annotation(h, annotation)
    IN  Eff(eff.ns, eff.fs,
            IF eff.res.out = "err" THEN Ok("unit") ELSE eff.res)

RateRuleBuilder_annotation(h, annotation) ==
    MapErr(set_annotation(h, annotation))

\* As ParameterBuilder does: the serialized text becomes the whole annotation.
RateRuleBuilder_annotation_serde_replacing(h, annotation) ==
    LET s == to_string(annotation)
    IN  IF s.out # "ok"
        THEN Eff(nodes, facades, s)
        ELSE MapErr(set_annotation(h, s.val))

RateRuleBuilder_annotation_serde(h, annotation) ==
    set_annotation_serde(h, annotation)

\* model.create_assignment_rule(variable, formula)
AssignmentRuleBuilder_new(model, variable, formula) ==
    Stage(Rule_new_assignment_rule(model, variable, formula))

AssignmentRuleBuilder_annotation(h, annotation) ==
    MapErr(set_annotation(h, annotation))

\* The element is added to the container without looking for one of its tag.
AssignmentRuleBuilder_annotation_serde_appending(h, annotation) ==
    LET s == to_string(annotation)
        a == facades[h].addr
    IN  IF s.out # "ok"
        THEN Eff(nodes, facades, s)
        ELSE Eff([nodes EXCEPT ![a].annotation =
                     <<Elem(AnnotationTag,
                            Append(ContainerKids(nodes[a].annotation),
                                   ParseMarkup(s.val).forest[1]))>>],
                 facades, Ok("unit"))

AssignmentRuleBuilder_annotation_serde(h, annotation) ==
    set_annotation_serde(h, annotation)

----------------------------------------------------------------------------
\* SpeciesReference

\* createReactant / createProduct, initDefaults (stoichiometry 1), then
\* setSpecies through the SimpleSpeciesReference view of the new object.
SpeciesReference_new_node(sid, ref_type) ==
    [BlankNode EXCEPT !.kind = ref_type, !.stoichiometry = 1, !.species = sid]

SpeciesReference_new(reaction, sid, ref_type) ==
    Create(reaction, SpeciesReference_new_node(sid, ref_type),
           "SpeciesReference", "SpeciesReference::new")

\* getId is read through the base view where getSpecies is meant.
SpeciesReference_species_of_id(h) ==
    LET simple_spec_ref == upcast(h, "SimpleSpeciesReference")
    IN  IF simple_spec_ref.out # "ok"
        THEN simple_spec_ref
        ELSE Ok(nodes[simple_spec_ref.val.addr].id)

SpeciesReference_species(h) ==
    LET simple_spec_ref == upcast(h, "SimpleSpeciesReference")
    IN  IF simple_spec_ref.out # "ok"
        THEN simple_spec_ref
        ELSE to_str_unwrap(nodes[simple_spec_ref.val.addr].species)

\* setId is called through the base view where setSpecies is meant.
SpeciesReference_set_species_as_id(h, species) ==
    LET simple_spec_ref == upcast(h, "SimpleSpeciesReference")
    IN  IF simple_spec_ref.out # "ok"
        THEN Eff(nodes, facades, simple_spec_ref)
        ELSE Eff([nodes EXCEPT ![simple_spec_ref.val.addr].id = species],
                 facades, Ok("unit"))

SpeciesReference_set_species(h, species) ==
    LET simple_spec_ref == upcast(h, "SimpleSpeciesReference")
    IN  IF simple_spec_ref.out # "ok"
        THEN Eff(nodes, facades, simple_spec_ref)
        ELSE Eff([nodes EXCEPT ![simple_spec_ref.val.addr].species = species],
                 facades, Ok("unit"))

SpeciesReference_stoichiometry(h) == Read(h, NodeOf(h).stoichiometry)

\* The borrow is taken and setStoichiometry is never called.
SpeciesReference_set_stoichiometry_dropped(h, stoichiometry) ==
    Mutate(h, nodes)

SpeciesReference_set_stoichiometry(h, stoichiometry) ==
    Mutate(h, [nodes EXCEPT ![facades[h].addr].stoichiometry = stoichiometry])

SpeciesReference_constant(h) == Read(h, NodeOf(h).constant)

SpeciesReference_set_constant(h, constant) ==
    Mutate(h, [nodes EXCEPT ![facades[h].addr].constant = constant,
                            ![facades[h].addr].isSetConstant = TRUE])

SpeciesReference_from_ptr(a) ==
    Eff(nodes,
        [facades EXCEPT ![FreeHandle] =
            NewFacade(a, "SpeciesReference", "from_ptr", FALSE)],
        Ok(FreeHandle))

\* reaction.create_reactant(sid, 1.0) / reaction.create_product(sid, 1.0)
SpeciesReferenceBuilder_new(reaction, sid, ref_type) ==
    Stage(SpeciesReference_new(reaction, sid, ref_type))

SpeciesReferenceBuilder_stoichiometry(h, stoichiometry) ==
    SpeciesReference_set_stoichiometry(h, stoichiometry)

SpeciesReferenceBuilder_constant(h, constant) ==
    SpeciesReference_set_constant(h, constant)

SpeciesReferenceBuilder_annotation(h, annotation) ==
    MapErr(set_annotation(h, annotation))

\* The serialized text becomes the whole annotation.
SpeciesReferenceBuilder_annotation_serde_replacing(h, annotation) ==
    LET s == to_string(annotation)
    IN  IF s.out # "ok"
        THEN Eff(nodes, facades, s)
        ELSE MapErr(set_annotation(h, s.val))

SpeciesReferenceBuilder_annotation_serde(h, annotation) ==
    set_annotation_serde(h, annotation)

----------------------------------------------------------------------------
\* Calls.  A panic unwinds the caller: nothing runs after it.

Running == last.out # "panic"

Call(op, h, arg, eff) ==
    /\ Running
    /\ nodes' = eff.ns
    /\ facades' = eff.fs
    /\ last' = [op |-> op, h |-> h, arg |-> arg,
                out |-> eff.res.out, val |-> eff.res.val]

Query(op, h, res) == Call(op, h, "none", Eff(nodes, facades, res))

\* A facade the caller holds; a builder keeps its facade until build().
Direct(h, ty) == Live(h) /\ facades[h].type = ty /\ ~facades[h].building
Staged(h, ty) == Live(h) /\ facades[h].type = ty /\ facades[h].building
StagedRule(h, origin) == Staged(h, "Rule") /\ facades[h].origin = origin
Held(h) == Live(h) /\ ~facades[h].building
CanCreate == HasFreeAddr /\ HasFreeHandle
Entity(h) == h \notin {ModelHandle, ReactionHandle}

\* Parameter
ParameterNew(id) ==
    /\ CanCreate
    /\ Call("Parameter::new", FreeHandle, id, Parameter_new(ModelHandle, id))
ParameterId(h) ==
    Direct(h, "Parameter") /\ Query("Parameter::id", h, Parameter_id(h))
ParameterSetId(h, id) ==
    /\ Direct(h, "Parameter")
    /\ Call("Parameter::set_id", h, id, Parameter_set_id(h, id))
ParameterName(h) ==
    Direct(h, "Parameter") /\ Query("Parameter::name", h, Parameter_name(h))
ParameterSetName(h, name) ==
    /\ Direct(h, "Parameter")
    /\ Call("Parameter::set_name", h, name, Parameter_set_name(h, name))
ParameterValue(h) ==
    Direct(h, "Parameter") /\ Query("Parameter::value", h, Parameter_value(h))
ParameterSetValue(h, value) ==
    /\ Direct(h, "Parameter")
    /\ Call("Parameter::set_value", h, value, Parameter_set_value(h, value))
ParameterUnits(h) ==
    Direct(h, "Parameter") /\ Query("Parameter::units", h, Parameter_units(h))
ParameterSetUnits(h, units) ==
    /\ Direct(h, "Parameter")
    /\ Call("Parameter::set_units", h, units, Parameter_set_units(h, units))
ParameterConstant(h) ==
    /\ Direct(h, "Parameter")
    /\ Query("Parameter::constant", h, Parameter_constant(h))
ParameterSetConstant(h, constant) ==
    /\ Direct(h, "Parameter")
    /\ Call("Parameter::set_constant", h, constant,
            Parameter_set_constant(h, constant))
ParameterFromPtr(a) ==
    /\ HasFreeHandle
    /\ nodes[a].kind = "Parameter"
    /\ Call("Parameter::from_ptr", FreeHandle, a, Parameter_from_ptr(a))

ParameterBuilderNew(id) ==
    /\ CanCreate
    /\ Call("ParameterBuilder::new", FreeHandle, id,
            ParameterBuilder_new(ModelHandle, id))
ParameterBuilderValue(h, value) ==
    /\ Staged(h, "Parameter")
    /\ Call("ParameterBuilder::value", h, value,
            ParameterBuilder_value(h, value))
ParameterBuilderUnits(h, units) ==
    /\ Staged(h, "Parameter")
    /\ Call("ParameterBuilder::units", h, units,
            ParameterBuilder_units(h, units))
ParameterBuilderConstant(h, constant) ==
    /\ Staged(h, "Parameter")
    /\ Call("ParameterBuilder::constant", h, constant,
            ParameterBuilder_constant(h, constant))
ParameterBuilderAnnotation(h, text) ==
    /\ Staged(h, "Parameter")
    /\ Call("ParameterBuilder::annotation", h, text,
            ParameterBuilder_annotation(h, text))
ParameterBuilderAnnotationSerde(h, v) ==
    /\ Staged(h, "Parameter")
    /\ Call("ParameterBuilder::annotation_serde", h, v,
            ParameterBuilder_annotation_serde(h, v))

\* build() of any of the builders
BuilderBuild(h) ==
    /\ Live(h)
    /\ facades[h].building
    /\ Call("build", h, "none", Builder_build(h))

\* Rule
RuleNewRateRule(variable, formula) ==
    /\ CanCreate
    /\ Call("Rule::new_rate_rule", FreeHandle, <<variable, formula>>,
            Rule_new_rate_rule(ModelHandle, variable, formula))
RuleNewAssignmentRule(variable, formula) ==
    /\ CanCreate
    /\ Call("Rule::new_assignment_rule", FreeHandle, <<variable, formula>>,
            Rule_new_assignment_rule(ModelHandle, variable, formula))
RuleVariable(h) ==
    Direct(h, "Rule") /\ Query("Rule::variable", h, Rule_variable(h))
RuleSetVariable(h, variable) ==
    /\ Direct(h, "Rule")
    /\ Call("Rule::set_variable", h, variable, Rule_set_variable(h, variable))
RuleFormula(h) ==
    Direct(h, "Rule") /\ Query("Rule::formula", h, Rule_formula(h))
RuleSetFormula(h, formula) ==
    /\ Direct(h, "Rule")
    /\ Call("Rule::set_formula", h, formula, Rule_set_formula(h, formula))
RuleRuleType(h) ==
    Direct(h, "Rule") /\ Query("Rule::rule_type", h, Rule_rule_type(h))
RuleFromPtr(a) ==
    /\ HasFreeHandle
    /\ nodes[a].kind \in {"RateRule", "AssignmentRule", "AlgebraicRule"}
    /\ Call("Rule::from_ptr", FreeHandle, a, Rule_from_ptr(a))

RateRuleBuilderNew(variable, formula) ==
    /\ CanCreate
    /\ Call("RateRuleBuilder::new", FreeHandle, <<variable, formula>>,
            RateRuleBuilder_new(ModelHandle, variable, formula))
RateRuleBuilderAnnotation(h, text) ==
    /\ StagedRule(h, "new_rate_rule")
    /\ Call("RateRuleBuilder::annotation", h, text,
            RateRuleBuilder_annotation(h, text))
RateRuleBuilderAnnotationSerde(h, v) ==
    /\ StagedRule(h, "new_rate_rule")
    /\ Call("RateRuleBuilder::annotation_serde", h, v,
            RateRuleBuilder_annotation_serde(h, v))
AssignmentRuleBuilderNew(variable, formula) ==
    /\ CanCreate
    /\ Call("AssignmentRuleBuilder::new", FreeHandle, <<variable, formula>>,
            AssignmentRuleBuilder_new(ModelHandle, variable, formula))
AssignmentRuleBuilderAnnotation(h, text) ==
    /\ StagedRule(h, "new_assignment_rule")
    /\ Call("AssignmentRuleBuilder::annotation", h, text,
            AssignmentRuleBuilder_annotation(h, text))
AssignmentRuleBuilderAnnotationSerde(h, v) ==
    /\ StagedRule(h, "new_assignment_rule")
    /\ Call("AssignmentRuleBuilder::annotation_serde", h, v,
            AssignmentRuleBuilder_annotation_serde(h, v))

\* SpeciesReference
SpeciesReferenceNew(sid, ref_type) ==
    /\ CanCreate
    /\ Call("SpeciesReference::new", FreeHandle, <<sid, ref_type>>,
            SpeciesReference_new(ReactionHandle, sid, ref_type))
SpeciesReferenceSpecies(h) ==
    /\ Direct(h, "SpeciesReference")
    /\ Query("SpeciesReference::species", h, SpeciesReference_species(h))
SpeciesReferenceSetSpecies(h, species) ==
    /\ Direct(h, "SpeciesReference")
    /\ Call("SpeciesReference::set_species", h, species,
            SpeciesReference_set_species(h, species))
SpeciesReferenceStoichiometry(h) ==
    /\ Direct(h, "SpeciesReference")
    /\ Query("SpeciesReference::stoichiometry", h,
             SpeciesReference_stoichiometry(h))
SpeciesReferenceSetStoichiometry(h, stoichiometry) ==
    /\ Direct(h, "SpeciesReference")
    /\ Call("SpeciesReference::set_stoichiometry", h, stoichiometry,
            SpeciesReference_set_stoichiometry(h, stoichiometry))
SpeciesReferenceConstant(h) ==
    /\ Direct(h, "SpeciesReference")
    /\ Query("SpeciesReference::constant", h, SpeciesReference_constant(h))
SpeciesReferenceSetConstant(h, constant) ==
    /\ Direct(h, "SpeciesReference")
    /\ Call("SpeciesReference::set_constant", h, constant,
            SpeciesReference_set_constant(h, constant))
SpeciesReferenceFromPtr(a) ==
    /\ HasFreeHandle
    /\ nodes[a].kind \in {"Reactant", "Product"}
    /\ Call("SpeciesReference::from_ptr", FreeHandle, a,
            SpeciesReference_from_ptr(a))

SpeciesReferenceBuilderNew(sid, ref_type) ==
    /\ CanCreate
    /\ Call("SpeciesReferenceBuilder::new", FreeHandle, <<sid, ref_type>>,
            SpeciesReferenceBuilder_new(ReactionHandle, sid, ref_type))
SpeciesReferenceBuilderStoichiometry(h, stoichiometry) ==
    /\ Staged(h, "SpeciesReference")
    /\ Call("SpeciesReferenceBuilder::stoichiometry", h, stoichiometry,
            SpeciesReferenceBuilder_stoichiometry(h, stoichiometry))
SpeciesReferenceBuilderConstant(h, constant) ==
    /\ Staged(h, "SpeciesReference")
    /\ Call("SpeciesReferenceBuilder::constant", h, constant,
            SpeciesReferenceBuilder_constant(h, constant))
SpeciesReferenceBuilderAnnotation(h, text) ==
    /\ Staged(h, "SpeciesReference")
    /\ Call("SpeciesReferenceBuilder::annotation", h, text,
            SpeciesReferenceBuilder_annotation(h, text))
SpeciesReferenceBuilderAnnotationSerde(h, v) ==
    /\ Staged(h, "SpeciesReference")
    /\ Call("SpeciesReferenceBuilder::annotation_serde", h, v,
            SpeciesReferenceBuilder_annotation_serde(h, v))

\* The annotation trait, on any facade the caller holds
GetAnnotation(h) ==
    Held(h) /\ Query("get_annotation", h, get_annotation(h))
SetAnnotation(h, text) ==
    Held(h) /\ Call("set_annotation", h, text, set_annotation(h, text))
SetAnnotationSerde(h, v) ==
    Held(h) /\ Call("set_annotation_serde", h, v, set_annotation_serde(h, v))
GetAnnotationSerde(h, T) ==
    /\ Held(h)
    /\ Call("get_annotation_serde", h, T,
            Eff(nodes, facades, get_annotation_serde(h, T)))


\* A guard taken from a facade's cell and kept: facade.inner().borrow(),
\* facade.inner().borrow_mut(), and the drop of either guard.
Inner_borrow(h) ==
    IF CanBorrow(h)
    THEN Eff(nodes, [facades EXCEPT ![h].readers = @ + 1], Ok("Ref"))
    ELSE Eff(nodes, facades, Panic("BorrowError"))

Inner_borrow_mut(h) ==
    IF CanBorrowMut(h)
    THEN Eff(nodes, [facades EXCEPT ![h].writer = TRUE], Ok("RefMut"))
    ELSE Eff(nodes, facades, Panic("BorrowMutError"))

Drop_Ref(h) == Eff(nodes, [facades EXCEPT ![h].readers = @ - 1], Ok("unit"))

Drop_RefMut(h) == Eff(nodes, [facades EXCEPT ![h].writer = FALSE], Ok("unit"))

\* The guards out, over all the cells.
GuardsOut ==
    Cardinality({hi \in Handle \X (1..MaxGuards) : hi[2] <= facades[hi[1]].readers})
        + Cardinality({h \in Handle : facades[h].writer})

InnerBorrow(h) ==
    /\ Held(h)
    /\ GuardsOut < MaxGuards
    /\ Call("inner().borrow", h, "none", Inner_borrow(h))
InnerBorrowMut(h) ==
    Held(h) /\ GuardsOut < MaxGuards /\ Call("inner().borrow_mut", h, "none", Inner_borrow_mut(h))
DropRef(h) ==
    /\ Held(h)
    /\ facades[h].readers > 0
    /\ Call("drop(Ref)", h, "none", Drop_Ref(h))
DropRefMut(h) ==
    /\ Held(h)
    /\ facades[h].writer
    /\ Call("drop(RefMut)", h, "none", Drop_RefMut(h))


\* libSBML makes a rule of its own, as when a document is read from a file:
\* a rule of any class, holding the bytes the file held.
Load_rule(kind, variable, formula) ==
    Eff([nodes EXCEPT ![FreeAddr] = Rule_new_node(kind, variable, formula)],
        facades, Ok(FreeAddr))

LoadRule(kind, variable, formula) ==
    /\ HasFreeAddr
    /\ Call("load", 0, <<kind, variable, formula>>,
            Load_rule(kind, variable, formula))

----------------------------------------------------------------------------
\* The arguments the calls are made with.

Ids == {"p", "q"}
Names == {"n"}
UnitNames == {"mole"}
Numbers == {1, 2}
Variables == {"s1", "s2"}
Formulas == {"f1", "f2"}
SpeciesIds == {"s1", "s2"}
RefTypes == {"Reactant", "Product"}

TextTest == <<Open("test"), Text("test"), Close("test")>>
TextWrapped ==
    <<Open(AnnotationTag), WS, Open("test"), Text("test"), Close("test"),
      WS, Close(AnnotationTag)>>
TextOther == <<WS, Open("other"), Text("o"), Close("other"), WS>>
TextMistyped ==
    <<Open("Test"), Open("wrong"), Text("x"), Close("wrong"), Close("Test")>>
TextUnclosed == <<Open("test"), Text("test")>>
TextCrossed == <<Open("test"), Text("test"), Close("other")>>

WellFormedTexts == {TextTest, TextWrapped, TextOther, TextMistyped}
Texts == WellFormedTexts \cup {TextUnclosed, TextCrossed}
Serializable == Values \cup {Rejected}

Init ==
    /\ nodes = Document
    /\ facades = DocumentFacades
    /\ last = [op |-> "init", h |-> 0, arg |-> "none", out |-> "ok",
               val |-> "none"]

----------------------------------------------------------------------------
\* The calls, by the arguments they are made with.

NoEntity == \A h \in Handle : Entity(h) => ~Live(h)

CreateParameter(ids) ==
    \/ \E id \in ids : ParameterNew(id)
    \/ \E id \in ids : ParameterBuilderNew(id)

CreateRule(vs, fs) ==
    \/ \E v \in vs, f \in fs : RuleNewRateRule(v, f)
    \/ \E v \in vs, f \in fs : RuleNewAssignmentRule(v, f)
    \/ \E v \in vs, f \in fs : RateRuleBuilderNew(v, f)
    \/ \E v \in vs, f \in fs : AssignmentRuleBuilderNew(v, f)

CreateSpeciesReference(sids) ==
    \/ \E sid \in sids, t \in RefTypes : SpeciesReferenceNew(sid, t)
    \/ \E sid \in sids, t \in RefTypes : SpeciesReferenceBuilderNew(sid, t)

ParameterCalls(h) ==
    \/ ParameterId(h)
    \/ \E id \in Ids : ParameterSetId(h, id)
    \/ ParameterName(h)
    \/ \E n \in Names : ParameterSetName(h, n)
    \/ ParameterValue(h)
    \/ \E v \in Numbers : ParameterSetValue(h, v)
    \/ ParameterUnits(h)
    \/ \E u \in UnitNames : ParameterSetUnits(h, u)
    \/ ParameterConstant(h)
    \/ \E c \in BOOLEAN : ParameterSetConstant(h, c)

RuleCalls(h) ==
    \/ RuleVariable(h)
    \/ \E v \in Variables : RuleSetVariable(h, v)
    \/ RuleFormula(h)
    \/ \E f \in Formulas : RuleSetFormula(h, f)
    \/ RuleRuleType(h)

SpeciesReferenceCalls(h) ==
    \/ SpeciesReferenceSpecies(h)
    \/ \E sp \in SpeciesIds : SpeciesReferenceSetSpecies(h, sp)
    \/ SpeciesReferenceStoichiometry(h)
    \/ \E st \in Numbers : SpeciesReferenceSetStoichiometry(h, st)
    \/ SpeciesReferenceConstant(h)
    \/ \E c \in BOOLEAN : SpeciesReferenceSetConstant(h, c)

BuilderAttributeCalls(h) ==
    \/ \E v \in Numbers : ParameterBuilderValue(h, v)
    \/ \E u \in UnitNames : ParameterBuilderUnits(h, u)
    \/ \E c \in BOOLEAN : ParameterBuilderConstant(h, c)
    \/ \E st \in Numbers : SpeciesReferenceBuilderStoichiometry(h, st)
    \/ \E c \in BOOLEAN : SpeciesReferenceBuilderConstant(h, c)

BuilderAnnotationCalls(h, texts, values) ==
    \/ \E t \in texts : ParameterBuilderAnnotation(h, t)
    \/ \E v \in values : ParameterBuilderAnnotationSerde(h, v)
    \/ \E t \in texts : RateRuleBuilderAnnotation(h, t)
    \/ \E v \in values : RateRuleBuilderAnnotationSerde(h, v)
    \/ \E t \in texts : AssignmentRuleBuilderAnnotation(h, t)
    \/ \E v \in values : AssignmentRuleBuilderAnnotationSerde(h, v)
    \/ \E t \in texts : SpeciesReferenceBuilderAnnotation(h, t)
    \/ \E v \in values : SpeciesReferenceBuilderAnnotationSerde(h, v)

AnnotationSetCalls(h, texts, values) ==
    \/ \E t \in texts : SetAnnotation(h, t)
    \/ \E v \in values : SetAnnotationSerde(h, v)

AnnotationGetCalls(h) ==
    \/ GetAnnotation(h)
    \/ \E T \in SerdeTypes : GetAnnotationSerde(h, T)

----------------------------------------------------------------------------
\* One entity of any kind, and every accessor of it.

FewTexts == {TextTest}
FewValues == {[type |-> "Test", val |-> "x"]}

Next ==
    \/ NoEntity /\ CreateParameter(Ids)
    \/ NoEntity /\ CreateRule(Variables, Formulas)
    \/ NoEntity /\ CreateSpeciesReference(SpeciesIds)
    \/ \E h \in Handle : ParameterCalls(h)
    \/ \E h \in Handle : RuleCalls(h)
    \/ \E h \in Handle : SpeciesReferenceCalls(h)
    \/ \E h \in Handle : BuilderAttributeCalls(h)
    \/ \E h \in Handle : BuilderAnnotationCalls(h, FewTexts, FewValues)
    \/ \E h \in Handle : BuilderBuild(h)
    \/ \E h \in Handle : Entity(h) /\ AnnotationSetCalls(h, FewTexts, FewValues)
    \/ \E h \in Handle : Entity(h) /\ AnnotationGetCalls(h)

Spec == Init /\ [][Next]_vars

----------------------------------------------------------------------------
\* One entity of any kind, and every way to annotate it.

NextAnn ==
    \/ NoEntity /\ CreateParameter({"p"})
    \/ NoEntity /\ CreateRule({"s1"}, {"f1"})
    \/ NoEntity /\ CreateSpeciesReference({"s1"})
    \/ \E h \in Handle : BuilderAnnotationCalls(h, Texts, Serializable)
    \/ \E h \in Handle : BuilderBuild(h)
    \/ \E h \in Handle : Entity(h) /\ AnnotationSetCalls(h, Texts, Serializable)
    \/ \E h \in Handle : Entity(h) /\ AnnotationGetCalls(h)

SpecAnn == Init /\ [][NextAnn]_vars

----------------------------------------------------------------------------
\* A document of several entities, each annotated through its own facade,
\* as are the Model and the Reaction that own them.

NextDoc ==
    \/ ParameterNew("p")
    \/ SpeciesReferenceNew("s1", "Reactant")
    \/ \E h \in Handle : AnnotationSetCalls(h, FewTexts, FewValues)

SpecDoc == Init /\ [][NextDoc]_vars

----------------------------------------------------------------------------
\* Facades made by the factories and by from_ptr, the guards taken from
\* their cells, and accessors called while guards are out.

NextBorrow ==
    \/ ParameterNew("p")
    \/ SpeciesReferenceNew("s1", "Reactant")
    \/ RuleNewRateRule("s1", "f1")
    \/ \E a \in Addr : ParameterFromPtr(a)
    \/ \E a \in Addr : SpeciesReferenceFromPtr(a)
    \/ \E a \in Addr : RuleFromPtr(a)
    \/ \E h \in Handle : ParameterId(h)
    \/ \E h \in Handle : ParameterSetId(h, "q")
    \/ \E h \in Handle : SpeciesReferenceSetSpecies(h, "s2")
    \/ \E h \in Handle : RuleSetVariable(h, "s2")
    \/ \E h \in Handle : InnerBorrow(h)
    \/ \E h \in Handle : InnerBorrowMut(h)
    \/ \E h \in Handle : DropRef(h)
    \/ \E h \in Handle : DropRefMut(h)

SpecBorrow == Init /\ [][NextBorrow]_vars

----------------------------------------------------------------------------
\* A document holding rules libSBML made itself, reached through from_ptr,
\* beside rules the factories made.

RuleKinds == {"RateRule", "AssignmentRule", "AlgebraicRule"}

NextLoaded ==
    \/ \E k \in RuleKinds, v \in {"s1", NotUtf8} : LoadRule(k, v, "f1")
    \/ \E a \in Addr : RuleFromPtr(a)
    \/ RuleNewRateRule("s1", "f1")
    \/ RuleNewAssignmentRule("s1", "f1")
    \/ \E h \in Handle : RuleVariable(h)
    \/ \E h \in Handle : RuleSetVariable(h, "s2")
    \/ \E h \in Handle : RuleFormula(h)
    \/ \E h \in Handle : RuleRuleType(h)

SpecLoaded == Init /\ [][NextLoaded]_vars

----------------------------------------------------------------------------
\* Properties of the annotation trait.

SerdeMergeSetters ==
    {"set_annotation_serde", "RateRuleBuilder::annotation_serde",
     "AssignmentRuleBuilder::annotation_serde",
     "SpeciesReferenceBuilder::annotation_serde"}
SerdeSetters == SerdeMergeSetters \cup {"ParameterBuilder::annotation_serde"}
RawSetters ==
    {"set_annotation", "ParameterBuilder::annotation",
     "RateRuleBuilder::annotation", "AssignmentRuleBuilder::annotation",
     "SpeciesReferenceBuilder::annotation"}

\* The elements of the container get_annotation() shows.
ShownKids(h) == ContainerKids(ParseMarkup(get_annotation(h).val).forest)
Others(ks, tag) == SelectSeq(ks, LAMBDA e : e.tag # tag)

\* C1: a value the serializer accepts, set with set_annotation_serde or a
\* builder's annotation_serde on a node of any kind, is set successfully and
\* get_annotation_serde for its type then returns that value.
C1_RoundTrip ==
    (last.op \in SerdeSetters /\ Accepts(last.arg)) =>
        /\ last.out = "ok"
        /\ get_annotation_serde(last.h, last.arg.type) = Ok(last.arg)

\* A value has just been set beside other content and reads back.
C1_Witness ==
    /\ last.op \in SerdeSetters
    /\ Accepts(last.arg)
    /\ last.arg.val = "y"
    /\ Len(ShownKids(last.h)) >= 2
    /\ get_annotation_serde(last.h, last.arg.type) = Ok(last.arg)

UnwrappedTexts == {TextTest, TextOther, TextMistyped}

\* C2: after set_annotation(t) with well-formed t, get_annotation() is
\* <annotation>t</annotation> up to whitespace; a t that already is an
\* <annotation> element is kept as it is, not wrapped again.
C2_SetAnnotationWraps ==
    (last.op \in RawSetters /\ last.arg \in WellFormedTexts) =>
        /\ last.out = "ok"
        /\ get_annotation(last.h).out = "ok"
        /\ Normalize(get_annotation(last.h).val) =
              IF last.arg \in UnwrappedTexts
              THEN <<Open(AnnotationTag)>> \o Normalize(last.arg)
                       \o <<Close(AnnotationTag)>>
              ELSE Normalize(last.arg)

\* The wrapped text has just been set over an annotation that was present.
C2_Witness ==
    /\ last.op \in RawSetters
    /\ last.arg = TextWrapped
    /\ Normalize(get_annotation(last.h).val) = Normalize(TextWrapped)
    /\ facades[last.h].type = "Rule"

\* C3: set_annotation_serde of a value of type T keeps every element of the
\* container whose tag is not T's, unchanged and in order, and leaves exactly
\* one element tagged T.
C3_MergePreserves ==
    [][\A h \in Handle :
          (last'.h = h /\ last'.op \in SerdeMergeSetters /\ last'.out = "ok") =>
              \A before \in {ShownKids(h)}, after \in {ShownKids(h)'} :
                  /\ Others(after, TagOf(last'.arg.type)) =
                         Others(before, TagOf(last'.arg.type))
                  /\ Cardinality(TaggedAt(after, TagOf(last'.arg.type))) = 1
      ]_vars

\* A value has just been merged into a container holding a foreign element
\* and an element of the other serde type.
C3_Witness ==
    /\ last.op \in SerdeMergeSetters
    /\ last.out = "ok"
    /\ Len(ShownKids(last.h)) = 3
    /\ TaggedAt(ShownKids(last.h), "test") # {}

\* C4: set_annotation or set_annotation_serde on one node leaves what
\* get_annotation() returns on every other node (a sibling, the owner, an
\* owned node) as it was.
C4_NonInterference ==
    [][\A h \in Handle :
          (last'.h = h /\ last'.op \in {"set_annotation", "set_annotation_serde"}) =>
              \A g \in Handle :
                  (Live(g) /\ facades[g].addr # facades[h].addr) =>
                      get_annotation(g)' = get_annotation(g)
      ]_vars

\* A Parameter has just been annotated while its Model and a sibling
\* entity carry annotations that differ from its own.
C4_Witness ==
    /\ last.op = "set_annotation_serde"
    /\ Live(last.h)
    /\ NodeOf(last.h).kind = "Parameter"
    /\ nodes[ModelAddr].annotation # <<>>
    /\ nodes[ModelAddr].annotation # NodeOf(last.h).annotation
    /\ \E g \in Handle :
          /\ Live(g) /\ Entity(g) /\ g # last.h
          /\ NodeOf(g).annotation # <<>>
          /\ NodeOf(g).annotation # NodeOf(last.h).annotation

----------------------------------------------------------------------------
\* Properties of the borrow tracking.

\* The facades of the node at address a whose cell has a guard out.
Readers(a) == {g \in Handle : Live(g) /\ facades[g].addr = a /\ facades[g].readers > 0}
Writers(a) == {g \in Handle : Live(g) /\ facades[g].addr = a /\ facades[g].writer}

WriteRequests ==
    {"Parameter::set_id", "SpeciesReference::set_species", "Rule::set_variable",
     "inner().borrow_mut"}

\* C5: a write request on a node with a shared or exclusive access
\* outstanding fails with a borrow conflict and grants nothing; with no
\* access outstanding the same request succeeds.
C5_BorrowExclusivity ==
    [][\A h \in Handle :
          (last'.h = h /\ last'.op \in WriteRequests) =>
              IF Readers(facades[h].addr) \cup Writers(facades[h].addr) # {}
              THEN last'.out = "panic" /\ nodes' = nodes /\ facades' = facades
              ELSE last'.out = "ok"
      ]_vars

\* C6: for each node, over all the facades that address it, at most one
\* exclusive access is live and none is live together with a shared one.
C6_OneWriterPerNode ==
    \A a \in Addr :
        /\ Cardinality(Writers(a)) <= 1
        /\ Writers(a) # {} => Readers(a) = {}

----------------------------------------------------------------------------
\* Properties of the typed accessors.

UpcastReads == {"SpeciesReference::species", "get_annotation", "get_annotation_serde"}
RuleFactories == {"Rule::new_rate_rule", "Rule::new_assignment_rule"}

\* C7: an upcast addresses the same node and changes no attribute. A read
\* through a base view leaves every node as it was; species() returns the
\* species the node had before the call; each declared ancestor view of a
\* SpeciesReference has the facade's address; the variable and formula a
\* rule factory sets through the Rule view are read back from the facade.
C7_UpcastIdentity ==
    [][\A h \in Handle :
          /\ (last'.h = h /\ last'.op \in UpcastReads) => nodes' = nodes
          /\ (last'.h = h /\ last'.op = "SpeciesReference::species") =>
                /\ last'.val = NodeOf(h).species
                /\ \A to \in Ancestors("SpeciesReference") :
                      upcast(h, to)' = Ok([addr |-> facades[h].addr, type |-> to])
                /\ SpeciesReference_stoichiometry(h)' = SpeciesReference_stoichiometry(h)
                /\ SpeciesReference_constant(h)' = SpeciesReference_constant(h)
          /\ (last'.h = h /\ last'.op \in RuleFactories /\ last'.out = "ok") =>
                /\ Rule_variable(h)' = Ok(last'.arg[1])
                /\ Rule_formula(h)' = Ok(last'.arg[2])
      ]_<<last.op, vars>>

\* species() has just read, through the base view, the species of an
\* annotated reference whose stoichiometry is not the default.
C7_Witness ==
    /\ last.op = "SpeciesReference::species"
    /\ last.val = "s2"
    /\ NodeOf(last.h).species = "s2"
    /\ NodeOf(last.h).stoichiometry = 2
    /\ NodeOf(last.h).annotation # <<>>

\* C8: after set_species(s) on a SpeciesReference, species() on it returns
\* s, and stoichiometry() and constant() return what they did before.
C8_SetSpeciesVisible ==
    [][\A h \in Handle :
          (last'.h = h /\ last'.op = "SpeciesReference::set_species") =>
              /\ SpeciesReference_species(h)' = Ok(last'.arg)
              /\ SpeciesReference_stoichiometry(h)' = SpeciesReference_stoichiometry(h)
              /\ SpeciesReference_constant(h)' = SpeciesReference_constant(h)
      ]_vars

\* set_species(s2) has just been called on a reference with stoichiometry
\* 2 and the constant flag set.
C8_Witness ==
    /\ last.op = "SpeciesReference::set_species"
    /\ last.arg = "s2"
    /\ last.out = "ok"
    /\ SpeciesReference_species(last.h) = Ok("s2")
    /\ SpeciesReference_stoichiometry(last.h) = Ok(2)
    /\ SpeciesReference_constant(last.h) = Ok(TRUE)

\* C9: rule_type() on a Rule made by new_rate_rule is RateRule, and on a
\* Rule made by new_assignment_rule is AssignmentRule, whatever has been
\* set on it since.
C9_DiscriminantExact ==
    \A h \in Handle :
        /\ (Live(h) /\ facades[h].origin = "new_rate_rule") =>
              Rule_rule_type(h) = Ok("RateRule")
        /\ (Live(h) /\ facades[h].origin = "new_assignment_rule") =>
              Rule_rule_type(h) = Ok("AssignmentRule")

\* An annotation has just been set on a rule made by new_assignment_rule
\* whose variable and formula are set, and it reports AssignmentRule.
C9_Witness ==
    /\ last.op = "set_annotation_serde"
    /\ last.out = "ok"
    /\ facades[last.h].origin = "new_assignment_rule"
    /\ NodeOf(last.h).variable = "s2"
    /\ NodeOf(last.h).formula = "f2"
    /\ Rule_rule_type(last.h) = Ok("AssignmentRule")

\* C10: Parameter::constant() returns the value of the constant flag.
C10_ConstantReturnsFlag ==
    \A h \in Handle :
        (last.h = h /\ last.op = "Parameter::constant" /\ last.out = "ok") =>
            last.val = NodeOf(h).constant

----------------------------------------------------------------------------
\* Properties of the Parameter attributes.

ParameterFactories == {"Parameter::new", "ParameterBuilder::new"}
IdSetters == {"Parameter::set_id"}
NameSetters == {"Parameter::set_name"}
ValueSetters == {"Parameter::set_value", "ParameterBuilder::value"}
UnitsSetters == {"Parameter::set_units", "ParameterBuilder::units"}

\* C11: on a Parameter, a factory makes id() return the construction id; a
\* setter of id, name, value or units makes its own getter return the
\* argument; and every other call leaves what that getter returns as it was.
C11_LastWriteWins ==
    [][\A h \in Handle :
          (last'.h = h /\ last'.out = "ok") =>
              /\ last'.op \in ParameterFactories => Parameter_id(h)' = Ok(last'.arg)
              /\ last'.op \in IdSetters => Parameter_id(h)' = Ok(last'.arg)
              /\ last'.op \in NameSetters => Parameter_name(h)' = Ok(last'.arg)
              /\ last'.op \in ValueSetters => Parameter_value(h)' = Ok(<<last'.arg>>)
              /\ last'.op \in UnitsSetters => Parameter_units(h)' = Ok(last'.arg)
              /\ (Live(h) /\ facades[h].type = "Parameter") =>
                    /\ last'.op \notin IdSetters => Parameter_id(h)' = Parameter_id(h)
                    /\ last'.op \notin NameSetters => Parameter_name(h)' = Parameter_name(h)
                    /\ last'.op \notin ValueSetters => Parameter_value(h)' = Parameter_value(h)
                    /\ last'.op \notin UnitsSetters => Parameter_units(h)' = Parameter_units(h)
      ]_<<last.op, vars>>

\* set_units has just been called on a Parameter made by Parameter::new
\* whose id, name and value are all set.
C11_Witness ==
    /\ last.op = "Parameter::set_units"
    /\ last.out = "ok"
    /\ facades[last.h].origin = "Parameter::new"
    /\ Parameter_id(last.h) = Ok("q")
    /\ Parameter_name(last.h) = Ok("n")
    /\ Parameter_value(last.h) = Ok(<<2>>)
    /\ Parameter_units(last.h) = Ok("mole")

\* C12: value() is None on a Parameter a factory has just made and stays
\* None until the first set_value; after set_value(v) it is Some(v), and no
\* call other than set_value changes it.
C12_ValueOption ==
    [][\A h \in Handle :
          (last'.h = h /\ last'.out = "ok") =>
              /\ last'.op \in ParameterFactories => Parameter_value(h)' = Ok(<<>>)
              /\ last'.op \in ValueSetters => Parameter_value(h)' = Ok(<<last'.arg>>)
              /\ (Live(h) /\ facades[h].type = "Parameter"
                          /\ last'.op \notin ValueSetters) =>
                    Parameter_value(h)' = Parameter_value(h)
              /\ last'.op = "Parameter::value" =>
                    last'.val = (IF NodeOf(h).value = <<>> THEN <<>>
                                 ELSE <<NodeOf(h).value[1]>>)
      ]_<<last.op, vars>>

\* value() has just returned None on a Parameter whose id, name, units and
\* constant flag have been set but whose value has not.
C12_Witness ==
    /\ last.op = "Parameter::value"
    /\ last.val = <<>>
    /\ NodeOf(last.h).name = "n"
    /\ NodeOf(last.h).units = "mole"
    /\ NodeOf(last.h).isSetConstant
    /\ ~NodeOf(last.h).constant

----------------------------------------------------------------------------
\* Further properties of the annotation trait.

\* C13: setting a structured value of one type makes get_annotation_serde
\* for that type return it and leaves what get_annotation_serde returns for
\* every other type as it was, so values of two types set in either order
\* are both read back.
C13_TypesCoexist ==
    [][\A h \in Handle :
          (last'.h = h /\ last'.op \in SerdeMergeSetters /\ last'.out = "ok") =>
              \A T \in SerdeTypes :
                  \A before \in {get_annotation_serde(h, T)},
                     after \in {get_annotation_serde(h, T)'} :
                      IF T = last'.arg.type
                      THEN after = Ok(last'.arg)
                      ELSE after = before
      ]_<<last.op, vars>>

\* A Test value has just been set on a node that already held an Other
\* value, and both are read back.
C13_Witness ==
    /\ last.op \in SerdeMergeSetters
    /\ last.out = "ok"
    /\ last.arg = [type |-> "Test", val |-> "x"]
    /\ get_annotation_serde(last.h, "Test") = Ok([type |-> "Test", val |-> "x"])
    /\ get_annotation_serde(last.h, "Other") = Ok([type |-> "Other", val |-> "y"])
    /\ \A i \in TaggedAt(ShownKids(last.h), "Other") :
          \A j \in TaggedAt(ShownKids(last.h), "Test") : i < j

BuilderRawSetters == RawSetters \ {"set_annotation"}

\* C14: set_annotation, or a builder's annotation(), with text that does
\* not parse returns an error (the builders' wrapped in SeError::Custom) and
\* leaves every node, and so get_annotation() and every attribute, as it was.
C14_MalformedLeavesNode ==
    [][\A h \in Handle :
          (last'.h = h /\ last'.op \in RawSetters) =>
              \A t \in {last'.arg} :
                  ~ParseMarkup(t).ok =>
                      /\ last'.out = "err"
                      /\ last'.op = "set_annotation" => last'.val = "MalformedMarkup"
                      /\ last'.op \in BuilderRawSetters =>
                            last'.val = <<"Custom", "MalformedMarkup">>
                      /\ nodes' = nodes
                      /\ get_annotation(h)' = get_annotation(h)
      ]_<<last.op, vars>>

\* Text with crossed tags has just been refused on a node that keeps the
\* annotation it had.
C14_Witness ==
    /\ last.op \in RawSetters
    /\ last.arg = TextCrossed
    /\ last.out = "err"
    /\ Len(ShownKids(last.h)) = 2

\* C15: get_annotation_serde for type T returns a not-found error when the
\* node has no element tagged for T (or no annotation), a schema error when
\* the first such element does not deserialize as T, and the value
\* otherwise; the two errors differ and the call changes no node.
C15_NotFoundOrMismatch ==
    [][\A h \in Handle :
          (last'.h = h /\ last'.op = "get_annotation_serde") =>
              /\ nodes' = nodes
              /\ \A ks \in {ShownKids(h)}, T \in {last'.arg} :
                    LET at == TaggedAt(ks, TagOf(T))
                        e == ks[CHOOSE i \in at : \A j \in at : i <= j]
                    IN  IF at = {}
                        THEN last'.out = "err" /\ last'.val = "AnnotationNotFound"
                        ELSE IF from_element(T, e).out # "ok"
                        THEN last'.out = "err" /\ last'.val = "SchemaMismatch"
                        ELSE last'.out = "ok" /\ last'.val.type = T
      ]_<<last.op, vars>>

\* A Test element that does not deserialize as Test has just been reported
\* as a schema error on a node that also holds a value of the other type.
C15_Witness ==
    /\ last.op = "get_annotation_serde"
    /\ last.arg = "Test"
    /\ last.out = "err"
    /\ last.val = "SchemaMismatch"
    /\ Len(ShownKids(last.h)) >= 2
    /\ get_annotation_serde(last.h, "Other").out = "ok"

----------------------------------------------------------------------------
\* Properties of the failures.

GuardOps == {"inner().borrow", "inner().borrow_mut", "drop(Ref)", "drop(RefMut)"}

\* C16: no facade operation panics; every failure is an error value
\* returned to the caller.
C16_NoPanic == last.op \notin GuardOps => last.out # "panic"

\* C17: rule_type() answers RateRule when the rate predicate holds,
\* otherwise AssignmentRule when the assignment predicate holds, otherwise
\* an error and no variant; it changes no node.
C17_ProbeOrder ==
    [][\A h \in Handle :
          (last'.h = h /\ last'.op = "Rule::rule_type") =>
              /\ nodes' = nodes
              /\ facades' = facades
              /\ isRate(NodeOf(h)) =>
                    last'.out = "ok" /\ last'.val = "RateRule"
              /\ (~isRate(NodeOf(h)) /\ isAssignment(NodeOf(h))) =>
                    last'.out = "ok" /\ last'.val = "AssignmentRule"
              /\ (~isRate(NodeOf(h)) /\ ~isAssignment(NodeOf(h))) =>
                    last'.out = "err" /\ last'.val = "Unknown rule type"
      ]_<<last.op, vars>>

\* rule_type() has just refused an algebraic rule reached through from_ptr.
C17_Witness ==
    /\ last.op = "Rule::rule_type"
    /\ last.out = "err"
    /\ NodeOf(last.h).kind = "AlgebraicRule"
    /\ facades[last.h].origin = "from_ptr"

----------------------------------------------------------------------------
\* Properties of the SpeciesReference attributes.

SpeciesReferenceFactories == {"SpeciesReference::new", "SpeciesReferenceBuilder::new"}
StoichiometrySetters ==
    {"SpeciesReference::set_stoichiometry", "SpeciesReferenceBuilder::stoichiometry"}
ConstantSetters ==
    {"SpeciesReference::set_constant", "SpeciesReferenceBuilder::constant"}

\* C18: a SpeciesReference made for species sid as a Reactant or a Product
\* has species() = sid; set_constant(c) and set_stoichiometry(s), direct or
\* through the builder, make constant() = c and stoichiometry() = s and each
\* leaves the other two attributes as they were; build() changes none.
C18_ReferenceAttributes ==
    [][\A h \in Handle :
          (last'.h = h /\ last'.out = "ok") =>
              /\ last'.op \in SpeciesReferenceFactories =>
                    /\ SpeciesReference_species(h)' = Ok(last'.arg[1])
                    /\ NodeOf(h)'.kind = last'.arg[2]
              /\ last'.op \in StoichiometrySetters =>
                    /\ SpeciesReference_stoichiometry(h)' = Ok(last'.arg)
                    /\ SpeciesReference_species(h)' = SpeciesReference_species(h)
                    /\ SpeciesReference_constant(h)' = SpeciesReference_constant(h)
              /\ last'.op \in ConstantSetters =>
                    /\ SpeciesReference_constant(h)' = Ok(last'.arg)
                    /\ SpeciesReference_species(h)' = SpeciesReference_species(h)
                    /\ SpeciesReference_stoichiometry(h)' =
                          SpeciesReference_stoichiometry(h)
              /\ (last'.op = "build" /\ facades[h].type = "SpeciesReference") =>
                    nodes' = nodes
      ]_<<last.op, vars>>

\* A builder has just built a Product reference for s1 whose stoichiometry
\* and constant flag it had set.
C18_Witness ==
    /\ last.op = "build"
    /\ facades[last.h].type = "SpeciesReference"
    /\ NodeOf(last.h).kind = "Product"
    /\ SpeciesReference_species(last.h) = Ok("s1")
    /\ SpeciesReference_stoichiometry(last.h) = Ok(2)
    /\ SpeciesReference_constant(last.h) = Ok(TRUE)

----------------------------------------------------------------------------
\* Properties of the Rule attributes.

RateRuleFactories == {"Rule::new_rate_rule", "RateRuleBuilder::new"}
AnnotationCalls ==
    RawSetters \cup SerdeSetters \cup {"get_annotation", "get_annotation_serde"}

\* C19: a rate rule made for variable v and formula f has variable() = v
\* and formula() = f, and no annotation call on a rule, successful or not,
\* changes what variable() and formula() return.
C19_AnnotationKeepsRule ==
    [][\A h \in Handle :
          last'.h = h =>
              /\ (last'.op \in RateRuleFactories /\ last'.out = "ok") =>
                    /\ Rule_variable(h)' = Ok(last'.arg[1])
                    /\ Rule_formula(h)' = Ok(last'.arg[2])
              /\ (last'.op \in AnnotationCalls /\ Live(h)
                     /\ facades[h].type = "Rule") =>
                    /\ Rule_variable(h)' = Rule_variable(h)
                    /\ Rule_formula(h)' = Rule_formula(h)
      ]_<<last.op, vars>>

\* A value has just been merged into the annotation of a rate rule that
\* already held other content, and its variable and formula are those it
\* was made with.
C19_Witness ==
    /\ last.op \in SerdeMergeSetters
    /\ last.out = "ok"
    /\ facades[last.h].origin = "new_rate_rule"
    /\ Len(ShownKids(last.h)) >= 2
    /\ Rule_variable(last.h) = Ok("s1")
    /\ Rule_formula(last.h) = Ok("f1")

----------------------------------------------------------------------------
\* Algebraic properties of the annotation trait.

\* C20: set_annotation_serde(v) on a node from which get_annotation_serde
\* already returns v (v was set by the call before, direct or through a
\* builder) leaves get_annotation() as it was, with exactly one element
\* tagged for v's type, and get_annotation_serde still returns v.
C20_SerdeSetIdempotent ==
    [][\A h \in Handle :
          (last'.h = h /\ last'.op \in SerdeMergeSetters /\ last'.out = "ok"
              /\ Live(h)) =>
              \A T \in SerdeTypes, v \in {last'.arg} :
                  \A before \in {get_annotation_serde(h, T)},
                     after \in {get_annotation_serde(h, T)'},
                     kids \in {ShownKids(h)'} :
                      (T = v.type /\ before.out = "ok" /\ before.val = v) =>
                          /\ get_annotation(h)' = get_annotation(h)
                          /\ Cardinality(TaggedAt(kids, TagOf(T))) = 1
                          /\ after.out = "ok" /\ after.val = v
      ]_<<last.op, vars>>

\* A value has just been set with set_annotation_serde on a built Parameter
\* whose annotation holds that value's element and nothing else.
C20_Witness ==
    /\ last.op = "set_annotation_serde"
    /\ last.out = "ok"
    /\ facades[last.h].type = "Parameter"
    /\ Len(ShownKids(last.h)) = 1
    /\ get_annotation_serde(last.h, last.arg.type).out = "ok"
    /\ get_annotation_serde(last.h, last.arg.type).val = last.arg

----------------------------------------------------------------------------
\* Properties of the builders' annotation steps.

BuilderSerdeSetters == SerdeSetters \ {"set_annotation_serde"}

\* C21: a builder's annotation_serde(v) leaves the node's annotation as
\* set_annotation_serde(v) would leave it from the same state, content set
\* earlier in the chain by annotation(text) included; this holds for
\* ParameterBuilder as for the rule and species reference builders.
C21_BuilderSerdeAsTrait ==
    [][\A h \in Handle :
          (last'.h = h /\ last'.op \in BuilderSerdeSetters /\ Live(h)) =>
              \A v \in {last'.arg} :
                  \A direct \in {set_annotation_serde(h, v)} :
                      nodes'[facades[h].addr].annotation
                          = direct.ns[facades[h].addr].annotation
      ]_<<last.op, vars>>

----------------------------------------------------------------------------
\* Properties of the borrows the accessors take.

BorrowConflicts == {"BorrowError", "BorrowMutError"}

\* C22: every facade operation releases the borrow it took before it
\* returns, on its error path too: after any sequence of constructors,
\* getters, setters, rule_type, annotation calls and builder steps no
\* facade's cell has a shared or exclusive borrow outstanding, and no call
\* of the sequence met a borrow conflict.
C22_BorrowsReleased ==
    /\ \A h \in Handle :
          Live(h) => facades[h].readers = 0 /\ ~facades[h].writer
    /\ last.out = "panic" => last.val \notin BorrowConflicts

\* A read has just failed with an error on a handle through which an
\* annotation was written before, and the handle's cell is not borrowed.
C22_Witness ==
    /\ last.op = "get_annotation_serde"
    /\ last.out = "err"
    /\ Live(last.h)
    /\ NodeOf(last.h).annotation # <<>>
    /\ facades[last.h].readers = 0
    /\ ~facades[last.h].writer

====
